---- MODULE Spec2Model ----
(***************************************************************************)
(* EPOS SiFive-U (RISC-V) SETUP: the boot sequencer (_entry, _setup,       *)
(* Setup::Setup), the load-map builder (build_lm), the physical memory     *)
(* planner (build_pmm) and the page-table builder (init_mmu) of            *)
(* src/src/setup/setup_sifive_u.cc.                                        *)
(*                                                                         *)
(* The machine is scaled down so that the state space is finite: a machine *)
(* word has WordBits bits (64 on the target), an unsigned int has UIntBits *)
(* bits (32 on the target), a page holds PageSize bytes and a page-table   *)
(* entry is one byte wide, so a table of PT_ENTRIES entries fills a page.  *)
(* All address arithmetic wraps modulo 2^WordBits as it does on the target.*)
(***************************************************************************)
EXTENDS Integers, Sequences, FiniteSets, TLC

\* ------------------------------------------------------------------------
\* Machine widths and MMU geometry
\* ------------------------------------------------------------------------
WordBits == 10
UIntBits == 9
AddrMod == 2 ^ WordBits
\* ~0U, also the value of -1u: all ones in an unsigned int
NoAddr == 2 ^ UIntBits - 1
NoOffset == 2 ^ UIntBits - 1

PageSize == 8
PT_ENTRIES == 8
PD_ENTRIES == 8
PtSpan == PageSize * PT_ENTRIES

\* unsigned wrap-around of a machine word
W(x) == x % AddrMod

\* MMU helpers (architecture/rv64/rv64_mmu.h)
pages(bytes) == (bytes + PageSize - 1) \div PageSize
page_tables(pgs) == (pgs + PT_ENTRIES - 1) \div PT_ENTRIES
align_page(addr) == W(((addr + PageSize - 1) \div PageSize) * PageSize)
align_directory(addr) == W(((addr + PtSpan - 1) \div PtSpan) * PtSpan)
page(addr) == (addr \div PageSize) % PT_ENTRIES
directory(addr) == (addr \div PtSpan) % PD_ENTRIES

\* page-table entry encoding: frame number above the flag bits
FlagSpan == 16
FlagV == 1
FlagsSYS == 15
FlagsMIO == 7
phy2pte(addr, flags) == (addr \div PageSize) * FlagSpan + flags
phy2pde(addr) == (addr \div PageSize) * FlagSpan + FlagV
pte2phy(entry) == (entry \div FlagSpan) * PageSize
pte2flags(entry) == entry % FlagSpan

\* ------------------------------------------------------------------------
\* Memory_Map and Traits
\* ------------------------------------------------------------------------
RAM_BASE == 256
PHY_MEM == 0
IO == 384
SYS == 448
SYS_INFO == 448
SYS_PT == 456
SYS_PD1 == 464
SYS_CODE == 472
SYS_DATA == 480
SYS_STACK == 488
APP_DATA == 64
SETUP == 256
BOOT_STACK == 320

CPUS == 2
SYS_STACK_SIZE == 8
APP_STACK_SIZE == 8
APP_HEAP_SIZE == 16
MACH_STACK_SIZE == 16
SizeofLong == 1

Harts == 0 .. (CPUS - 1)

\* ------------------------------------------------------------------------
\* ELF images of the boot blob (utility/elf.h)
\* ------------------------------------------------------------------------
PT_LOAD == 1
PT_NOTE == 4

entry(e) == e.entry
segments(e) == Len(e.segs)
segment_type(e, i) == e.segs[i + 1].type
segment_address(e, i) == e.segs[i + 1].addr
segment_size(e, i) == e.segs[i + 1].size

\* ------------------------------------------------------------------------
\* build_lm
\* ------------------------------------------------------------------------
\* the reset values written before a payload is inspected
ClearedMut == [entry |-> 0, segments |-> 0, code |-> 0, code_size |-> 0,
               data |-> 0, data_size |-> 0]
Cleared == [entry |-> 0, segments |-> 0, code |-> NoAddr, code_size |-> 0,
            data |-> NoAddr, data_size |-> 0]

\* the loop over segments 1 .. segments()-1: data = minimum address of the
\* PT_LOAD segments, data_size = sum of their sizes
RECURSIVE DataScan(_, _, _)
DataScan(e, i, acc) ==
    IF i >= segments(e) THEN acc
    ELSE IF segment_type(e, i) # PT_LOAD THEN DataScan(e, i + 1, acc)
    ELSE DataScan(e, i + 1,
           [data |-> IF segment_address(e, i) < acc.data
                       THEN segment_address(e, i) ELSE acc.data,
            size |-> W(acc.size + segment_size(e, i))])

Scanned(e) ==
    LET d == DataScan(e, 1, [data |-> NoAddr, size |-> 0])
    IN [entry |-> entry(e), segments |-> segments(e),
        code |-> segment_address(e, 0), code_size |-> segment_size(e, 0),
        data |-> d.data, data_size |-> d.size]

\* the checks of the SYSTEM payload against the memory map, in source order
SysCodeMismatch(l) == l.sys.code # SYS_CODE
SysCodeTooLargeMut(l) == FALSE
SysCodeTooLarge(l) == W(l.sys.code + l.sys.code_size) > l.sys.data
SysDataMismatch(l) == l.sys.data # SYS_DATA
SysDataTooLarge(l) == W(l.sys.data + l.sys.data_size) > l.sys_stack
SysStackTooLarge(l) ==
    page_tables(pages(W(W(l.sys_stack - SYS) + l.sys_stack_size))) > 1

DiagStp == "SETUP ELF image is corrupted!"
DiagIni == "INIT ELF image is corrupted!"
DiagSys == "OS ELF image is corrupted!"
DiagApp == "APP ELF image is corrupted!"
DiagSysCode == "OS code segment address does not match the machine's memory map!"
DiagSysCodeSize == "OS code segment is too large!"
DiagSysData == "OS data segment address does not match the machine's memory map!"
DiagSysDataSize == "OS data segment is too large!"
DiagSysStack == "OS stack segment is too large!"
DiagPmm == "SETUP would have been overwritten!"
DiagNext == "OS failed to init!"

SysDiag(l) ==
    IF SysCodeMismatch(l) THEN DiagSysCode
    ELSE IF SysCodeTooLarge(l) THEN DiagSysCodeSize
    ELSE IF SysDataMismatch(l) THEN DiagSysData
    ELSE IF SysDataTooLarge(l) THEN DiagSysDataSize
    ELSE IF SysStackTooLarge(l) THEN DiagSysStack
    ELSE ""

\* the APPLICATION block after the segment scan (lines 261-278)
AppFixup(b, l, mh) ==
    LET a1 == IF l.app.data = NoAddr
                THEN [l EXCEPT !.app.data = align_page(APP_DATA)] ELSE l
        s1 == align_page(a1.app.data_size)
        s2 == W(s1 + align_page(APP_STACK_SIZE))
        s3 == W(s2 + align_page(APP_HEAP_SIZE))
        a2 == IF mh
                THEN [a1 EXCEPT !.app_stack = W(a1.app.data + s1),
                                !.app_heap = W(a1.app.data + s2),
                                !.app.data_size = s3]
                ELSE a1
        x0 == W(b.img_size - b.extras_offset)
        x1 == IF mh THEN align_page(x0) ELSE x0
    IN IF a2.has_ext
         THEN [a2 EXCEPT !.app_extra = W(a2.app.data + a2.app.data_size),
                         !.app_extra_size = x1,
                         !.app.data_size = W(a2.app.data_size + x1)]
         ELSE a2

\* Setup::build_lm: the load map written so far and the diagnostic of the
\* panic that stopped it ("" when it returned)
build_lm(b, bi, lm0, mh) ==
    LET l0 == [lm0 EXCEPT !.has_stp = (b.setup_offset # NoOffset),
                          !.has_ini = (b.init_offset # NoOffset),
                          !.has_sys = (b.system_offset # NoOffset),
                          !.has_app = (b.application_offset # NoOffset),
                          !.has_ext = (b.extras_offset # NoOffset)]
        l1 == [l0 EXCEPT !.stp = Cleared]
        stpBad == l1.has_stp /\ ~bi[b.setup_offset].valid
        l2 == IF l1.has_stp
                THEN [l1 EXCEPT !.stp = Scanned(bi[b.setup_offset])] ELSE l1
        l3 == [l2 EXCEPT !.ini = Cleared]
        iniBad == l3.has_ini /\ ~bi[b.init_offset].valid
        l4 == IF l3.has_ini
                THEN [l3 EXCEPT !.ini = Scanned(bi[b.init_offset])] ELSE l3
        l5 == [l4 EXCEPT !.sys = Cleared,
                         !.sys_stack = SYS_STACK,
                         !.sys_stack_size = W(SYS_STACK_SIZE * b.n_cpus)]
        sysBad == l5.has_sys /\ ~bi[b.system_offset].valid
        l6 == IF l5.has_sys
                THEN [l5 EXCEPT !.sys = Scanned(bi[b.system_offset])] ELSE l5
        sysDiag == IF l6.has_sys THEN SysDiag(l6) ELSE ""
        l7 == [l6 EXCEPT !.app = Cleared]
        appBad == l7.has_app /\ ~bi[b.application_offset].valid
        l8 == IF l7.has_app
                THEN AppFixup(b, [l7 EXCEPT !.app =
                                     Scanned(bi[b.application_offset])], mh)
                ELSE l7
    IN IF stpBad THEN [lm |-> l1, diag |-> DiagStp]
       ELSE IF iniBad THEN [lm |-> l3, diag |-> DiagIni]
       ELSE IF sysBad THEN [lm |-> l5, diag |-> DiagSys]
       ELSE IF sysDiag # "" THEN [lm |-> l6, diag |-> sysDiag]
       ELSE IF appBad THEN [lm |-> l7, diag |-> DiagApp]
       ELSE [lm |-> l8, diag |-> ""]

\* ------------------------------------------------------------------------
\* build_pmm
\* ------------------------------------------------------------------------
mem_pages(b) == pages(W(b.mem_top - b.mem_base))
io_pages(b) == pages(W(b.mio_top - b.mio_base))

\* lines 332-338: the page tables reserved for the physical-memory window
n_pds(b) == page_tables(mem_pages(b))
n_pd2(b) == IF n_pds(b) > PD_ENTRIES THEN n_pds(b) \div PD_ENTRIES ELSE 1
n_pd1(b) == IF n_pds(b) > PD_ENTRIES THEN n_pds(b) \div n_pd2(b) ELSE n_pds(b)

\* line 361: the test that SETUP and the boot image were not overlapped
SetupOverwritten(l, p) ==
    p.usr_mem_top <= W(l.stp.code + l.stp.code_size + l.stp.data_size)

\* Setup::build_pmm: the physical memory map written and the diagnostic of
\* the panic that ended it ("" when it returned)
build_pmm(b, l, pmm0) ==
    LET t0 == mem_pages(b)
        t1 == W(t0 - 1)
        t2 == W(t1 - 1)
        t3 == W(t2 - 1)
        t4 == W(t3 - 2)
        t5 == W(t4 - pages(l.sys.code_size))
        t6 == W(t5 - pages(l.sys.data_size))
        t7 == W(t6 - pages(l.sys_stack_size))
        t8 == W(t7 - n_pd1(b))
        t9 == W(t8 - n_pd2(b))
        t10 == W(t9 - page_tables(io_pages(b)))
        p == [pmm0 EXCEPT
                !.sys_info = W(t2 * PageSize),
                !.sys_pt = W(t3 * PageSize),
                !.sys_pd = W(t4 * PageSize),
                !.sys_code = W(t5 * PageSize),
                !.sys_data = W(t6 * PageSize),
                !.sys_stack = W(t7 * PageSize),
                !.phy_mem_pts = W(t9 * PageSize),
                !.io_pts = W(t10 * PageSize),
                !.usr_mem_base = b.mem_base,
                !.usr_mem_top = W(t10 * PageSize),
                !.free1_base = IF l.has_ext
                                 THEN W(l.app_extra + l.app_extra_size)
                                 ELSE W(l.app.data + l.app.data_size),
                !.free1_top = W(t10 * PageSize)]
    IN [pmm |-> p, diag |-> IF SetupOverwritten(l, p) THEN DiagPmm ELSE ""]

\* ------------------------------------------------------------------------
\* init_mmu
\* ------------------------------------------------------------------------
\* physical memory is a map from the byte addresses written so far to the
\* page-table entries stored there; an address never written holds garbage
Garbage == 0 - 1
Rd(ram, a) == IF a \in DOMAIN ram THEN ram[a] ELSE Garbage

\* n consecutive entry stores base[0] .. base[n-1], entry i receiving val(i)
Store(ram, base, n, val) ==
    [a \in DOMAIN ram \cup {W(base + i) : i \in 0 .. (n - 1)} |->
        IF W(a - base) < n THEN val[W(a - base)] ELSE ram[a]]

\* lines 436-438: the leaf tables of the physical-memory window
FillWindowLeaves(ram, b, p) ==
    Store(ram, p.phy_mem_pts, mem_pages(b),
          [i \in 0 .. (mem_pages(b) - 1) |->
              phy2pte(W(b.mem_base + i * PageSize), FlagsSYS)])

\* lines 442-447: the directory slots of a run of n_pts tables from `first`
LinkSlots(ram, p, vbase, first, n_pts) ==
    Store(ram, W(p.sys_pd + directory(align_directory(vbase))), n_pts,
          [j \in 0 .. (n_pts - 1) |-> phy2pde(W(first + j * PageSize))])

\* Setup::init_mmu: physical memory after the page tables were written
init_mmu(b, l, p, ram) ==
    LET One(v) == [i \in {0} |-> v]
        Run(n, first) ==
            [i \in 0 .. (n - 1) |-> phy2pte(W(first + i * PageSize), FlagsSYS)]
        r1 == Store(ram, p.sys_pt, PageSize, [i \in 0 .. (PageSize - 1) |-> 0])
        r2 == Store(r1, W(p.sys_pt + page(SYS_INFO)), 1,
                    One(phy2pte(p.sys_info, FlagsSYS)))
        r3 == Store(r2, W(p.sys_pt + page(SYS_PT)), 1,
                    One(phy2pte(p.sys_pt, FlagsSYS)))
        r4 == Store(r3, W(p.sys_pt + page(SYS_PD1)), 1,
                    One(phy2pte(p.sys_pd, FlagsSYS)))
        r5 == Store(r4, W(p.sys_pt + page(SYS_CODE)), pages(l.sys.code_size),
                    Run(pages(l.sys.code_size), p.sys_code))
        r6 == Store(r5, W(p.sys_pt + page(SYS_DATA)), pages(l.sys.data_size),
                    Run(pages(l.sys.data_size), p.sys_data))
        r7 == Store(r6, W(p.sys_pt + page(SYS_STACK)), pages(l.sys_stack_size),
                    Run(pages(l.sys_stack_size), p.sys_stack))
        r8 == Store(r7, p.sys_pd, PageSize, [i \in 0 .. (PageSize - 1) |-> 0])
        r9 == FillWindowLeaves(r8, b, p)
        r10 == LinkSlots(r9, p, RAM_BASE, p.phy_mem_pts, n_pds(b))
        r11 == LinkSlots(r10, p, PHY_MEM, p.phy_mem_pts, n_pds(b))
        r12 == Store(r11, p.io_pts, io_pages(b),
                     [i \in 0 .. (io_pages(b) - 1) |->
                         phy2pte(W(b.mio_base + i * PageSize), FlagsMIO)])
        r13 == LinkSlots(r12, p, IO, p.io_pts, page_tables(io_pages(b)))
    IN Store(r13, W(p.sys_pd + directory(SYS)), 1, One(phy2pde(p.sys_pt)))

\* ------------------------------------------------------------------------
\* State
\* ------------------------------------------------------------------------
VARIABLES
    bm,      \* si->bm: the boot descriptor
    bi,      \* the boot image: ELF image found at each payload offset
    mh,      \* Traits<System>::multiheap of the build
    lm,      \* si->lm: the load map
    pmm,     \* si->pmm: the physical memory map
    ram,     \* physical memory holding the page tables
    diag,    \* the diagnostics printed on the error stream so far
    pc,      \* per hart: the position in _entry / _setup / Setup::Setup
    sp,      \* per hart: the stack pointer
    tp,      \* per hart: the thread pointer (holds the hart id after _entry)
    satp,    \* per hart: the address-translation-root register
    flushed, \* per hart: satp as it was at the last MMU::flush_tlb ("none" before)
    trace,   \* per hart: the member functions of Setup called so far, in order
    stage    \* the component about to run when the components are run in
             \* the documented order ("boot" while the boot code itself runs)

vars == <<bm, bi, mh, lm, pmm, ram, diag, pc, sp, tp, satp, flushed, trace, stage>>

\* ------------------------------------------------------------------------
\* Inputs: boot descriptors, boot images, memory sizes
\* ------------------------------------------------------------------------
MaxDataSegs == 2
Payloads == {"stp", "ini", "sys", "app"}
Off(k) == CASE k = "stp" -> 0 [] k = "ini" -> 1 [] k = "sys" -> 2 [] k = "app" -> 3
\* the extras follow the four payloads; img_size - extras_offset bytes of them
ExtrasOff == Cardinality(Payloads)
ImgSize == ExtrasOff + 5

\* where the linker places each payload
CodeAt(k) == CASE k = "stp" -> SETUP [] k = "ini" -> 288
               [] k = "sys" -> SYS_CODE [] k = "app" -> 32
DataAt(k) == CodeAt(k) + PageSize
\* an image linked below RAM
LowAddr == PageSize

Seg(t, a, s) == [type |-> t, addr |-> a, size |-> s]

RECURSIVE SeqsUpTo(_, _)
SeqsUpTo(S, n) ==
    IF n = 0 THEN {<<>>}
    ELSE LET shorter == SeqsUpTo(S, n - 1)
         IN shorter \cup {Append(q, x) : q \in shorter, x \in S}

CodeSegs(k) == {Seg(PT_LOAD, CodeAt(k), 8), Seg(PT_LOAD, CodeAt(k), 12),
                Seg(PT_LOAD, CodeAt(k) + PageSize, 8), Seg(PT_LOAD, LowAddr, 8)}
DataSegs(k) == {Seg(PT_LOAD, DataAt(k), 6), Seg(PT_LOAD, DataAt(k) - 4, 6),
                Seg(PT_NOTE, DataAt(k) - 4, 6)}

Corrupted == [valid |-> FALSE, entry |-> 0, segs |-> <<Seg(PT_NOTE, 0, 0)>>]
Images(k, n) ==
    {[valid |-> TRUE, entry |-> c.addr, segs |-> <<c>> \o d] :
        c \in CodeSegs(k), d \in SeqsUpTo(DataSegs(k), n)} \cup {Corrupted}
WellFormed(k) ==
    [valid |-> TRUE, entry |-> CodeAt(k),
     segs |-> <<Seg(PT_LOAD, CodeAt(k), 8), Seg(PT_LOAD, DataAt(k), 6)>>]

\* RAM as [base, pages]; mem_top is the last byte
MemLayouts == {<<RAM_BASE, 8>>, <<RAM_BASE, 24>>, <<RAM_BASE, 2>>, <<0, 128>>}
IoLayouts == {<<16, 0>>, <<16, 9>>}

\* no image: the descriptor holds the absent sentinel for this payload
Absent == [valid |-> FALSE, entry |-> 0, segs |-> <<>>]

\* a blob: the ELF image found at each payload offset
Blob(img) == [o \in 0 .. (ExtrasOff - 1) |->
                 LET k == CHOOSE q \in Payloads : Off(q) = o
                 IN IF img[k] = Absent THEN Corrupted ELSE img[k]]

Descriptor(img, ext, n, m, io) ==
    [n_cpus |-> n,
     setup_offset |-> IF img["stp"] = Absent THEN NoOffset ELSE Off("stp"),
     init_offset |-> IF img["ini"] = Absent THEN NoOffset ELSE Off("ini"),
     system_offset |-> IF img["sys"] = Absent THEN NoOffset ELSE Off("sys"),
     application_offset |-> IF img["app"] = Absent THEN NoOffset ELSE Off("app"),
     extras_offset |-> IF ext THEN ExtrasOff ELSE NoOffset,
     img_size |-> ImgSize,
     mem_base |-> m[1], mem_top |-> W(m[1] + m[2] * PageSize - 1),
     mio_base |-> io[1], mio_top |-> io[1] + io[2] * PageSize]

\* one payload varies over its image family, the others are all well formed
\* or all absent
Combos(family) ==
    UNION {{[k \in Payloads |-> IF k = f THEN x
                                ELSE IF others THEN WellFormed(k) ELSE Absent] :
               others \in BOOLEAN, x \in family[f] \cup {Absent}} :
           f \in Payloads}

ZeroPayload == [entry |-> 0, segments |-> 0, code |-> 0, code_size |-> 0,
                data |-> 0, data_size |-> 0]
LmZero == [has_stp |-> FALSE, has_ini |-> FALSE, has_sys |-> FALSE,
           has_app |-> FALSE, has_ext |-> FALSE,
           stp |-> ZeroPayload, ini |-> ZeroPayload, sys |-> ZeroPayload,
           app |-> ZeroPayload, sys_stack |-> 0, sys_stack_size |-> 0,
           app_stack |-> 0, app_heap |-> 0, app_extra |-> 0, app_extra_size |-> 0]
PmmZero == [sys_info |-> 0, sys_pt |-> 0, sys_pd |-> 0, sys_code |-> 0,
            sys_data |-> 0, sys_stack |-> 0, phy_mem_pts |-> 0, io_pts |-> 0,
            usr_mem_base |-> 0, usr_mem_top |-> 0, free1_base |-> 0,
            free1_top |-> 0]

\* what the System_Info placeholder may hold in lm and pmm when SETUP
\* starts: nothing in SETUP writes them before init_mmu reads them
LmStale == [LmZero EXCEPT !.sys.code_size = 8, !.sys.data_size = 6,
                          !.sys_stack_size = 8]
PmmStale == [PmmZero EXCEPT !.sys_info = 232, !.sys_pt = 224, !.sys_pd = 208,
                            !.sys_code = 200, !.sys_data = 192,
                            !.sys_stack = 184, !.phy_mem_pts = 168,
                            !.io_pts = 152, !.usr_mem_top = 152]

NotFlushed == 0 - 1
NoRam == [a \in {} |-> 0]

Registers ==
    /\ pc = [h \in Harts |-> "_entry"]
    /\ sp = [h \in Harts |-> 0]
    /\ tp = [h \in Harts |-> 0]
    /\ satp = [h \in Harts |-> 0]
    /\ flushed = [h \in Harts |-> NotFlushed]
    /\ trace = [h \in Harts |-> <<>>]

\* ------------------------------------------------------------------------
\* The boot code as written: every hart runs _entry, _setup, Setup::Setup
\* ------------------------------------------------------------------------
BootFamily ==
    [k \in Payloads |->
        IF k = "sys"
          THEN {WellFormed(k),
                [WellFormed(k) EXCEPT !.segs[1].addr = SYS_CODE + PageSize]}
          ELSE {WellFormed(k)}]
BootMemLayouts == {<<RAM_BASE, 8>>, <<0, 128>>}

Init ==
    /\ \E img \in Combos(BootFamily), n \in {CPUS, CPUS + 1},
          m \in BootMemLayouts :
          /\ bm = Descriptor(img, FALSE, n, m, <<16, 9>>)
          /\ bi = Blob(img)
    /\ mh = FALSE
    /\ lm \in {LmZero, LmStale}
    /\ pmm \in {PmmZero, PmmStale}
    /\ ram = NoRam
    /\ diag = {}
    /\ Registers
    /\ stage = "boot"

\* _entry (machine mode), lines 481-508
StackTop == W(BOOT_STACK + MACH_STACK_SIZE - SizeofLong)
Entry(h) ==
    /\ pc[h] = "_entry"
    /\ sp' = [sp EXCEPT ![h] = StackTop]
    /\ tp' = [tp EXCEPT ![h] = h]
    /\ satp' = [satp EXCEPT ![h] = 0]
    /\ pc' = [pc EXCEPT ![h] = "_setup"]
    /\ UNCHANGED <<bm, bi, mh, lm, pmm, ram, diag, flushed, trace, stage>>

\* _setup (supervisor mode), lines 510-516: constructs the Setup object
SetupEntry(h) ==
    /\ pc[h] = "_setup"
    /\ pc' = [pc EXCEPT ![h] = "Setup"]
    /\ UNCHANGED <<bm, bi, mh, lm, pmm, ram, diag, sp, tp, satp, flushed,
                   trace, stage>>

\* Setup::Setup, lines 88-98
SetupCtor(h) ==
    /\ pc[h] = "Setup"
    /\ bm' = IF bm.n_cpus > CPUS THEN [bm EXCEPT !.n_cpus = CPUS] ELSE bm
    /\ pc' = [pc EXCEPT ![h] = "say_hi"]
    /\ UNCHANGED <<bi, mh, lm, pmm, ram, diag, sp, tp, satp, flushed, trace,
                   stage>>

\* Setup::say_hi, lines 367-400
DiagNoApp == "No APPLICATION in boot image, you don't need EPOS!"
SayHi(h) ==
    /\ pc[h] = "say_hi"
    /\ diag' = IF bm.application_offset = NoOffset
                 THEN diag \cup {DiagNoApp} ELSE diag
    /\ trace' = [trace EXCEPT ![h] = Append(@, "say_hi")]
    /\ pc' = [pc EXCEPT ![h] = "init_mmu"]
    /\ UNCHANGED <<bm, bi, mh, lm, pmm, ram, sp, tp, satp, flushed, stage>>

\* Setup::init_mmu called from Setup::Setup, line 103
InitMmu(h) ==
    /\ pc[h] = "init_mmu"
    /\ ram' = init_mmu(bm, lm, pmm, ram)
    /\ trace' = [trace EXCEPT ![h] = Append(@, "init_mmu")]
    /\ pc' = [pc EXCEPT ![h] = "flush_tlb"]
    /\ UNCHANGED <<bm, bi, mh, lm, pmm, diag, sp, tp, satp, flushed, stage>>

\* MMU::flush_tlb, line 107
FlushTlb(h) ==
    /\ pc[h] = "flush_tlb"
    /\ flushed' = [flushed EXCEPT ![h] = satp[h]]
    /\ pc' = [pc EXCEPT ![h] = "call_next"]
    /\ UNCHANGED <<bm, bi, mh, lm, pmm, ram, diag, sp, tp, satp, trace, stage>>

\* Setup::call_next, lines 465-470: the call of _start
CallNext(h) ==
    /\ pc[h] = "call_next"
    /\ trace' = [trace EXCEPT ![h] = Append(@, "call_next")]
    /\ pc' = [pc EXCEPT ![h] = "_start"]
    /\ UNCHANGED <<bm, bi, mh, lm, pmm, ram, diag, sp, tp, satp, flushed, stage>>

\* Setup::call_next, lines 473-475: _start returned
NextReturns(h) ==
    /\ pc[h] = "_start"
    /\ diag' = diag \cup {DiagNext}
    /\ pc' = [pc EXCEPT ![h] = "returned"]
    /\ UNCHANGED <<bm, bi, mh, lm, pmm, ram, sp, tp, satp, flushed, trace, stage>>

\* the closing braces of call_next (line 475), Setup::Setup (line 112) and
\* _setup (line 517): nothing stops the hart after the diagnostic, so the
\* three functions return in turn. _setup was entered by mret, no caller
\* set ra, so the hart goes on at whatever address ra holds: the position
\* "ra" stands for every such address.
SetupReturns(h) ==
    /\ pc[h] = "returned"
    /\ pc' = [pc EXCEPT ![h] = "ra"]
    /\ UNCHANGED <<bm, bi, mh, lm, pmm, ram, diag, sp, tp, satp, flushed,
                   trace, stage>>

Next ==
    \E h \in Harts :
        \/ Entry(h)
        \/ SetupEntry(h)
        \/ SetupCtor(h)
        \/ SayHi(h)
        \/ InitMmu(h)
        \/ FlushTlb(h)
        \/ CallNext(h)
        \/ NextReturns(h)
        \/ SetupReturns(h)

Spec == Init /\ [][Next]_vars

\* ------------------------------------------------------------------------
\* The components run in the documented order on bounded inputs:
\* build_lm, then build_pmm, then init_mmu, a panic ending the run
\* (Setup::bi, declared at line 83, is never assigned; here it is taken to
\* point at the boot image, as build_lm expects.)
\* ------------------------------------------------------------------------
FullFamily == [k \in Payloads |-> Images(k, MaxDataSegs)]

InitComponents ==
    /\ \E img \in Combos(FullFamily), ext \in BOOLEAN, n \in 1 .. CPUS,
          m \in MemLayouts, io \in IoLayouts :
          /\ bm = Descriptor(img, ext, n, m, io)
          /\ bi = Blob(img)
    /\ mh \in BOOLEAN
    /\ lm = LmZero
    /\ pmm = PmmZero
    /\ ram = NoRam
    /\ diag = {}
    /\ Registers
    /\ stage = "build_lm"

RunBuildLm ==
    /\ stage = "build_lm"
    /\ LET r == build_lm(bm, bi, lm, mh)
       IN /\ lm' = r.lm
          /\ diag' = IF r.diag = "" THEN diag ELSE diag \cup {r.diag}
          /\ stage' = IF r.diag = "" THEN "build_pmm" ELSE "panic"
    /\ UNCHANGED <<bm, bi, mh, pmm, ram, pc, sp, tp, satp, flushed, trace>>

RunBuildPmm ==
    /\ stage = "build_pmm"
    /\ LET r == build_pmm(bm, lm, pmm)
       IN /\ pmm' = r.pmm
          /\ diag' = IF r.diag = "" THEN diag ELSE diag \cup {r.diag}
          /\ stage' = IF r.diag = "" THEN "init_mmu" ELSE "panic"
    /\ UNCHANGED <<bm, bi, mh, lm, ram, pc, sp, tp, satp, flushed, trace>>

RunInitMmu ==
    /\ stage = "init_mmu"
    /\ ram' = init_mmu(bm, lm, pmm, ram)
    /\ stage' = "done"
    /\ UNCHANGED <<bm, bi, mh, lm, pmm, diag, pc, sp, tp, satp, flushed, trace>>

NextComponents == RunBuildLm \/ RunBuildPmm \/ RunInitMmu

SpecComponents == InitComponents /\ [][NextComponents]_vars

\* ------------------------------------------------------------------------
\* Claims
\* ------------------------------------------------------------------------
\* the hart has called _start (control was handed to the next stage)
HandedOff(h) == pc[h] \in {"_start", "returned", "ra"}

\* the names of `want` occur in `t` in that order
RECURSIVE InOrder(_, _)
InOrder(want, t) ==
    IF want = <<>> THEN TRUE
    ELSE IF t = <<>> THEN FALSE
    ELSE IF Head(t) = Head(want) THEN InOrder(Tail(want), Tail(t))
    ELSE InOrder(want, Tail(t))

\* C1: in every boot run Setup runs build_lm, build_pmm, init_mmu and the
\* segment loader, in that order, and calls the next stage only after all
\* four have completed.
C1_FullSequenceBeforeHandoff ==
    \A h \in Harts :
        HandedOff(h) =>
            InOrder(<<"build_lm", "build_pmm", "init_mmu", "load_segments",
                      "call_next">>, trace[h])

\* satp with paging enabled and the root table at `root`: the mode field is
\* the top bit of the register, the frame number of the root the low bits
SatpPaging(root) == 2 ^ (WordBits - 1) + root \div PageSize

\* C2: when call_next transfers control, satp holds the address of the root
\* table pmm.sys_pd with paging enabled, and the TLB flush was issued after
\* that write (the last flush saw this value of satp).
C2_SatpRootAtHandoff ==
    \A h \in Harts :
        HandedOff(h) =>
            /\ satp[h] = SatpPaging(pmm.sys_pd)
            /\ flushed[h] = satp[h]

\* build_pmm returned without a panic
PmmBuilt == stage \in {"init_mmu", "done"}

\* the regions of the physical memory map in allocation order, as
\* <<base, pages>>
Regions ==
    <<<<pmm.sys_info, 1>>, <<pmm.sys_pt, 1>>, <<pmm.sys_pd, 2>>,
      <<pmm.sys_code, pages(lm.sys.code_size)>>,
      <<pmm.sys_data, pages(lm.sys.data_size)>>,
      <<pmm.sys_stack, pages(lm.sys_stack_size)>>,
      <<pmm.phy_mem_pts, n_pd1(bm) + n_pd2(bm)>>,
      <<pmm.io_pts, page_tables(io_pages(bm))>>>>

\* C3: whenever build_pmm returns without panic, every region of the
\* physical memory map has a page-aligned base inside [mem_base, mem_top],
\* and the regions are disjoint and allocated top-down: each region ends at
\* or below the base of the region allocated before it.
C3_RegionsAlignedDisjointTopDown ==
    PmmBuilt =>
        /\ \A i \in 1 .. Len(Regions) :
              /\ Regions[i][1] % PageSize = 0
              /\ bm.mem_base <= Regions[i][1]
              /\ Regions[i][1] + Regions[i][2] * PageSize - 1 <= bm.mem_top
        /\ \A i \in 2 .. Len(Regions) :
              Regions[i][1] + Regions[i][2] * PageSize <= Regions[i - 1][1]

\* C4: whenever build_pmm returns without panic, the free region
\* [usr_mem_base, usr_mem_top) is not empty: its base is bm.mem_base and lies
\* below its top.
C4_FreeRegionOrdered ==
    PmmBuilt =>
        /\ pmm.usr_mem_base = bm.mem_base
        /\ pmm.usr_mem_base < pmm.usr_mem_top

\* build_lm returned without a panic
LmBuilt == stage \in {"build_pmm", "init_mmu", "done"}
              \/ (stage = "panic" /\ diag = {DiagPmm})

\* the descriptor's offset of a payload and the payload's load-map entry
OffsetOf(k) == CASE k = "stp" -> bm.setup_offset [] k = "ini" -> bm.init_offset
                 [] k = "sys" -> bm.system_offset
                 [] k = "app" -> bm.application_offset
EntryOf(k) == CASE k = "stp" -> lm.stp [] k = "ini" -> lm.ini
                [] k = "sys" -> lm.sys [] k = "app" -> lm.app

\* the payload is in the image with a code segment and a PT_LOAD data segment
HasCodeAndData(k) ==
    /\ OffsetOf(k) # NoOffset
    /\ \E i \in 1 .. (segments(bi[OffsetOf(k)]) - 1) :
          segment_type(bi[OffsetOf(k)], i) = PT_LOAD

\* C5: when build_lm returns without panic, every present payload with a
\* code segment and at least one PT_LOAD data segment has
\* code + code_size <= data in the load map.
C5_NoCodeDataOverlap ==
    LmBuilt =>
        \A k \in Payloads :
            HasCodeAndData(k) =>
                EntryOf(k).code + EntryOf(k).code_size <= EntryOf(k).data

\* C5 as amended: when build_lm returns without panic and the system payload
\* is present, sys_code + sys_code_size <= sys_data; the other payloads are
\* not checked.
C5_SystemNoCodeDataOverlap ==
    (LmBuilt /\ bm.system_offset # NoOffset) =>
        lm.sys.code + lm.sys.code_size <= lm.sys.data

\* build_lm returned for an image whose system payload has code and data
\* while another payload's data segment starts inside its code segment
C5_Witness ==
    /\ LmBuilt
    /\ HasCodeAndData("sys")
    /\ lm.sys.code = SYS_CODE /\ lm.sys.data = SYS_DATA
    /\ \E k \in Payloads \ {"sys"} :
          HasCodeAndData(k) /\ EntryOf(k).code + EntryOf(k).code_size > EntryOf(k).data

\* the hart has got past the construction of the page tables
PastInitMmu(h) ==
    pc[h] \in {"flush_tlb", "call_next", "_start", "returned", "ra"}

\* C6: when the system payload is present and its code segment address is
\* not SYS_CODE, the boot panics with the "does not match the machine's
\* memory map" diagnostic and nothing further runs: no page table is built
\* and control is never handed to the next stage.
C6_SysCodeMismatchStopsBoot ==
    (/\ bm.system_offset # NoOffset
     /\ bi[bm.system_offset].valid
     /\ segment_address(bi[bm.system_offset], 0) # SYS_CODE) =>
        \A h \in Harts :
            PastInitMmu(h) => (DiagSysCode \in diag /\ ~HandedOff(h))

\* every payload offset of the descriptor is the absent sentinel
AllAbsent ==
    /\ \A k \in Payloads : OffsetOf(k) = NoOffset
    /\ bm.extras_offset = NoOffset

\* C7: when every payload offset is the absent sentinel, build_lm does not
\* panic and the load map is all zero: entry point, segment count, code and
\* data base, code, data and stack size of every payload.
C7_AllAbsentAllZero ==
    (AllAbsent /\ stage # "build_lm") =>
        /\ LmBuilt
        /\ \A k \in Payloads :
              /\ EntryOf(k).entry = 0 /\ EntryOf(k).segments = 0
              /\ EntryOf(k).code = 0 /\ EntryOf(k).code_size = 0
              /\ EntryOf(k).data = 0 /\ EntryOf(k).data_size = 0
        /\ lm.sys_stack_size = 0

\* C7 as amended: when every payload offset is the absent sentinel, build_lm
\* does not panic; every entry point, segment count, code size and data size
\* is zero, every code and data base is the sentinel ~0U, and the system
\* stack is SYS_STACK with Traits<System>::STACK_SIZE bytes per CPU.
C7_AllAbsentSentinels ==
    (AllAbsent /\ stage # "build_lm") =>
        /\ LmBuilt
        /\ \A k \in Payloads :
              /\ EntryOf(k).entry = 0 /\ EntryOf(k).segments = 0
              /\ EntryOf(k).code = NoAddr /\ EntryOf(k).code_size = 0
              /\ EntryOf(k).data = NoAddr /\ EntryOf(k).data_size = 0
        /\ lm.sys_stack = SYS_STACK
        /\ lm.sys_stack_size = SYS_STACK_SIZE * bm.n_cpus
        /\ ~(lm.has_stp \/ lm.has_ini \/ lm.has_sys \/ lm.has_app \/ lm.has_ext)

\* build_lm has run on a descriptor with every payload absent
C7_Witness == AllAbsent /\ stage = "build_pmm"

\* the leaf entry a table walk finds for page i of the physical-memory
\* window: the directory slot of the page, the table the slot points to,
\* the entry of the page in that table
WindowSlot(i) == directory(PHY_MEM) + (i \div PT_ENTRIES)
WindowPde(i) == Rd(ram, W(pmm.sys_pd + WindowSlot(i)))
WindowPte(i) == Rd(ram, W(pte2phy(WindowPde(i)) + (i % PT_ENTRIES)))

\* C8: after init_mmu, whatever the memory size, every page of RAM has its
\* leaf mapping reachable through the directory slots of the
\* physical-memory window, and page i of the window maps mem_base + i pages.
C8_WindowMapsAllRam ==
    stage = "done" =>
        \A i \in 0 .. (mem_pages(bm) - 1) :
            /\ WindowSlot(i) < PD_ENTRIES
            /\ pte2flags(WindowPde(i)) = FlagV
            /\ WindowPte(i) = phy2pte(W(bm.mem_base + i * PageSize), FlagsSYS)

\* the pool build_pmm reserved for the window's tables: the pages from
\* phy_mem_pts up to the region allocated before it
PoolBytes == W(pmm.sys_stack - pmm.phy_mem_pts)
\* the addresses init_mmu stores the window's leaf entries at
LeafAddrs == DOMAIN FillWindowLeaves(NoRam, bm, pmm)

\* C9: when the window needs more page tables than one directory has
\* entries, the pool holds ceil(total_pages / PT_ENTRIES) leaf tables, so
\* every leaf table init_mmu fills lies inside the pool.
C9_LeafTablesInsidePool ==
    (stage = "done" /\ page_tables(mem_pages(bm)) > PD_ENTRIES) =>
        /\ PoolBytes \div PageSize >= page_tables(mem_pages(bm))
        /\ \A a \in LeafAddrs : W(a - pmm.phy_mem_pts) < PoolBytes

\* the boot stack of a hart: MACH_STACK_SIZE bytes ending at the word its
\* stack pointer was set to
StackRange(h) == {W(sp[h] + SizeofLong - d) : d \in 1 .. MACH_STACK_SIZE}

\* C10: the boot stacks _entry establishes are private: the stack ranges of
\* two distinct harts that have run _entry are disjoint.
C10_PrivateBootStacks ==
    \A h1, h2 \in Harts :
        (h1 # h2 /\ pc[h1] # "_entry" /\ pc[h2] # "_entry") =>
            StackRange(h1) \cap StackRange(h2) = {}

\* the harts that have written the shared page-table regions: init_mmu
\* stores into sys_pt, sys_pd, phy_mem_pts and io_pts on every call
Writers ==
    {h \in Harts : \E i \in 1 .. Len(trace[h]) : trace[h][i] = "init_mmu"}

\* this step is hart h running init_mmu
WritesTables(h) == pc[h] = "init_mmu" /\ pc'[h] = "flush_tlb"

\* C11: in any interleaving of the harts that enter the boot sequence, at
\* most one hart ever writes the shared page-table regions, and no hart
\* writes them once any hart has handed control to the next stage.
C11_SingleWriterBuildOnce ==
    /\ [](Cardinality(Writers) <= 1)
    /\ [][(\E g \in Harts : HandedOff(g)) =>
              \A h \in Harts : ~WritesTables(h)]_vars

\* _start has returned to call_next on this hart
NextReturned(h) == pc[h] \in {"returned", "ra"}
\* the hart has left _setup through its return
SetupReturned(h) == pc[h] = "ra"

\* C12: when the next stage returns to call_next, the diagnostic is emitted
\* and the hart halts there: _setup never returns and the hart executes
\* nothing after that point.
C12_ReturnFromNextHalts ==
    \A h \in Harts :
        NextReturned(h) => (DiagNext \in diag /\ ~SetupReturned(h))

====
